---- MODULE Spec2Model ----
(***************************************************************************)
(* Minesweeper-Tk (src/minesweeper.py): the board engine of class Game as  *)
(* a state machine.  One action per Tk callback; a callback runs to        *)
(* completion before the next one starts (single-threaded event loop).     *)
(* The three presets of DEFINED_LEVELS are scaled down to boards TLC can   *)
(* enumerate; BoardWidth is the bound that sets their shapes.                *)
(***************************************************************************)
EXTENDS Integers, Sequences, FiniteSets, Bags, TLC

(* ---- bounds ---- *)
\* the width the three presets are scaled to (the source's boards are 9, 16
\* and 30 tiles wide)
BoardWidth == 3
\* left-presses per round (move_count is unbounded in the code)
MaxMoves == 2
\* tiles carrying a flag or a question mark at the same time
MaxMarks == 2
\* height and width of the square one-mine board of SpecGrid
GridSize == 3
\* the largest elapsed time of a won round, in seconds (unbounded in the code)
MaxTime == 1
\* NewHighScore windows open at the same time (unbounded in the code)
MaxDialogs == 2
\* after(1000, set_timer) callbacks pending at the same time (unbounded in the
\* code)
MaxTimers == 2

(* ---- data ---- *)
Level(h, w, m) == [height |-> h, width |-> w, mines |-> m]

LevelNames == {"beginner", "intermediate", "expert"}

DEFINED_LEVELS ==
    [n \in LevelNames |->
        CASE n = "beginner"     -> Level(1, BoardWidth, 1)
          [] n = "intermediate" -> Level(1, BoardWidth + 1, 2)
          [] n = "expert"       -> Level(2, BoardWidth - 1, 2)]

\* an optional value is a set with at most one element
None == {}
Some(x) == {x}
TheValue(opt) == CHOOSE x \in opt : TRUE

\* the coordinates (row, col) of the tiles of a level, as setup_tile_grid lays them out
TileIndices(lv) == (0 .. lv.height - 1) \X (0 .. lv.width - 1)

\* a freshly constructed Tile
Tile ==
    [is_visible |-> FALSE, is_mine |-> FALSE, is_flag |-> FALSE,
     is_question |-> FALSE, tile_neighbors |-> None, mine_neighbors |-> 0,
     image |-> "tile_raised"]
\* image is the picture painted by reset (line 259), by the flood fill (lines
\* 418, 424) and at the end of the game (lines 383, 385, 398).  The pictures
\* of the marks (lines 339, 343, 346) and the hover relief (lines 303-326)
\* are not stored.

setup_tile_grid(lv) == [t \in TileIndices(lv) |-> Tile]

VARIABLES
    level,          \* self.level, a Level
    tile_array,     \* self.tile_array: tile index -> Tile attributes
    mine_tiles,     \* self.mine_tiles, the tiles picked by generate_mines
    checked,        \* self.checked, the list of tiles uncovered by the last flood fill
    flags,          \* self.flags
    move_count,     \* self.move_count
    use_marks,      \* self.use_marks
    visible_target, \* self.visible_target
    game_over,      \* self.game_over
    outcome,        \* which branch set game_over: "NONE", "LOSS" or "WIN"
    pressed,        \* the tile holding the left button, if any
    difficulty,     \* self.difficulty
    highscores,     \* self.highscores: level name -> score (names are left out)
    dialogs,        \* the bag of open NewHighScore windows: new_high, and the
                    \* level that was selected when the window opened
    timers,         \* the number of pending after(1000, self.set_timer) callbacks
    mine_count      \* the number drawn on the self.mine_count canvas

vars == <<level, tile_array, mine_tiles, checked, flags, move_count, use_marks,
          visible_target, game_over, outcome, pressed, difficulty, highscores,
          dialogs, timers, mine_count>>

\* the score keeping part of the state
scores == <<difficulty, highscores, dialogs>>

\* int(perf_counter() - self.time_started) at a win
Times == 0 .. MaxTime

\* the score load_highscores() writes when there is no readable file
DefaultScore == 999

\* load_highscores() without a readable highscores.data
default_highscores == [n \in LevelNames |-> DefaultScore]

\* load_highscores() with a highscores.data in which every level has been won
\* in less than a second: no later win is a record
unbeatable_highscores == [n \in LevelNames |-> 0]

Tiles == DOMAIN tile_array

Init ==
    /\ level = DEFINED_LEVELS["beginner"]
    /\ tile_array = setup_tile_grid(DEFINED_LEVELS["beginner"])
    /\ mine_tiles = {}
    /\ checked = <<>>
    /\ flags = 0
    /\ move_count = 0
    /\ use_marks = TRUE
    /\ visible_target =
         DEFINED_LEVELS["beginner"].height * DEFINED_LEVELS["beginner"].width
           - DEFINED_LEVELS["beginner"].mines
    /\ game_over = FALSE
    /\ outcome = "NONE"
    /\ pressed = None
    /\ difficulty = "beginner"
    /\ highscores = unbeatable_highscores
    /\ dialogs = EmptyBag
    /\ timers = 0
    /\ mine_count = DEFINED_LEVELS["beginner"].mines

(* ---- helpers of Game ---- *)

\* a variant of set_timer that schedules the next call whatever game_over is
set_timer_always(over, pending) == pending + 1

\* set_timer: the pending callbacks after a call; the call schedules the next
\* one unless the game is over
set_timer(over, pending) == IF ~over THEN pending + 1 ELSE pending

\* a variant of set_mine_count that adds the increment to the flag counter
set_mine_count_adds(fl, increment) == fl + increment

\* set_mine_count: the flag counter after the call (self.flags -= increment)
set_mine_count(fl, increment) == fl - increment

\* set_mine_count: the number the call draws on the canvas
remaining_mines(lv, fl) == lv.mines - fl

\* reset_grid: the per-tile part
reset_tiles(arr) == [t \in DOMAIN arr |-> Tile]

\* the offsets of neighbors(), in the order of the source
offsets == << <<-1, -1>>, <<0, -1>>, <<1, -1>>, <<-1, 0>>,
              <<1, 0>>, <<-1, 1>>, <<0, 1>>, <<1, 1>> >>

\* a variant of nonnegative that lets every candidate through
nonnegative_unchecked(c) == TRUE

\* the test of neighbors(): every coordinate of offset + index is >= 0
nonnegative(c) == c[1] >= 0 /\ c[2] >= 0

\* numpy's tile_array[row, col] on the grid arr: a negative index counts from
\* the end of its axis, an index past either end raises IndexError (None)
np_index(arr, c) ==
    LET h == Cardinality({t[1] : t \in DOMAIN arr})
        w == Cardinality({t[2] : t \in DOMAIN arr})
        wrap(i, n) == IF i < 0 THEN i + n ELSE i
    IN  IF c[1] >= h \/ c[1] < -h \/ c[2] >= w \/ c[2] < -w
        THEN None
        ELSE Some(<<wrap(c[1], h), wrap(c[2], w)>>)

\* neighbors(): the list of valid neighbours of tile t on the grid arr.
\* A negative coordinate is skipped by the test, one past the end by IndexError.
neighbor_list(arr, t) ==
    LET cand == [i \in 1 .. Len(offsets) |->
                    <<t[1] + offsets[i][1], t[2] + offsets[i][2]>>]
        valid(c) == nonnegative(c) /\ np_index(arr, c) # None
        kept == SelectSeq(cand, valid)
    IN  [i \in 1 .. Len(kept) |-> TheValue(np_index(arr, kept[i]))]

SeqRange(s) == {s[i] : i \in 1 .. Len(s)}

\* mine_neighbors(): the number of list entries that are mines
mine_neighbors(arr, nbrs) ==
    Cardinality({i \in 1 .. Len(nbrs) : arr[nbrs[i]].is_mine})

\* assign_neighbor_properties()
assign_neighbor_properties(arr) ==
    [t \in DOMAIN arr |->
        [arr[t] EXCEPT !.tile_neighbors = Some(neighbor_list(arr, t)),
                       !.mine_neighbors = mine_neighbors(arr, neighbor_list(arr, t))]]

\* generate_mines(): choices(tiles, k) draws k times WITH replacement; picks is
\* the list drawn, a function 1..k -> tiles
generate_mines(arr, picks) ==
    [t \in DOMAIN arr |->
        IF t \in SeqRange(picks) THEN [arr[t] EXCEPT !.is_mine = TRUE] ELSE arr[t]]

\* visible_tiles()
visible_tiles(arr) == Cardinality({t \in DOMAIN arr : arr[t].is_visible})

NumberImage(n) ==
    CASE n = 1 -> "tile_1" [] n = 2 -> "tile_2" [] n = 3 -> "tile_3"
      [] n = 4 -> "tile_4" [] n = 5 -> "tile_5" [] n = 6 -> "tile_6"
      [] n = 7 -> "tile_7" [] OTHER -> "tile_8"

\* a variant of already_done that forgets the is_visible test
already_done_unless_visible(arr, chk, tile) ==
    tile \in SeqRange(chk) \/ arr[tile].is_mine

\* the entry test of uncover_tile(): the tile is in the checked list, visible
\* or a mine
already_done(arr, chk, tile) ==
    tile \in SeqRange(chk) \/ arr[tile].is_visible \/ arr[tile].is_mine

\* uncover_tile(): the recursive flood fill.  The result is the grid, the
\* checked list, whether the call raised (iterating tile_neighbors = None
\* raises TypeError, which the except IndexError clause does not catch) and
\* the number of calls of uncover_tile made.
RECURSIVE uncover_tile(_, _, _)
RECURSIVE uncover_each(_, _, _, _)
uncover_tile(arr, chk, tile) ==
    IF already_done(arr, chk, tile)
    THEN [arr |-> arr, chk |-> chk, err |-> FALSE, calls |-> 1]
    ELSE IF arr[tile].mine_neighbors # 0
    THEN [arr |-> [arr EXCEPT ![tile].image = NumberImage(arr[tile].mine_neighbors),
                              ![tile].is_visible = TRUE,
                              ![tile].is_question = FALSE],
          chk |-> Append(chk, tile), err |-> FALSE, calls |-> 1]
    ELSE LET a1 == [arr EXCEPT ![tile].image = "tile_flat",
                               ![tile].is_visible = TRUE,
                               ![tile].is_question = FALSE]
             c1 == Append(chk, tile)
         IN  IF a1[tile].tile_neighbors = None
             THEN [arr |-> a1, chk |-> c1, err |-> TRUE, calls |-> 1]
             ELSE LET r == uncover_each(a1, c1, TheValue(a1[tile].tile_neighbors), 1)
                  IN  [r EXCEPT !.calls = r.calls + 1]
uncover_each(arr, chk, nbrs, i) ==
    IF i > Len(nbrs)
    THEN [arr |-> arr, chk |-> chk, err |-> FALSE, calls |-> 0]
    ELSE LET r == uncover_tile(arr, chk, nbrs[i])
         IN  IF r.err
             THEN r
             ELSE LET rest == uncover_each(r.arr, r.chk, nbrs, i + 1)
                  IN  [rest EXCEPT !.calls = rest.calls + r.calls]

MarkedTiles(arr) == {t \in DOMAIN arr : arr[t].is_flag \/ arr[t].is_question}

(* ---- callbacks ---- *)

\* a variant of rclick_ignored that forgets the game_over test
rclick_ignored_when_visible(tile) == tile_array[tile].is_visible

\* on_rclick_tile returns at once when the round is over, and does nothing on
\* a visible tile
rclick_ignored(tile) == game_over \/ tile_array[tile].is_visible

\* a variant of may_flag that is off by one
may_flag_upto_cap == flags <= level.mines

\* on_rclick_tile places a flag only below the cap
may_flag == flags < level.mines

\* a variant of unflagged that never sets the question mark
unflagged_plain(arr, tile, marks) == [arr EXCEPT ![tile].is_flag = FALSE]

\* a variant of unflagged that leaves the flag on the questioned tile
unflagged_keeps_flag(arr, tile, marks) ==
    IF marks
    THEN [arr EXCEPT ![tile].is_question = TRUE]
    ELSE [arr EXCEPT ![tile].is_flag = FALSE]

\* on_rclick_tile on a flagged tile: the flag goes, and with marks enabled
\* the question mark comes
unflagged(arr, tile, marks) ==
    IF marks
    THEN [arr EXCEPT ![tile].is_flag = FALSE, ![tile].is_question = TRUE]
    ELSE [arr EXCEPT ![tile].is_flag = FALSE]

\* on_rclick_tile: cycle unmarked -> flag -> question -> unmarked
on_rclick_tile(tile) ==
    /\ pressed = None
    /\ IF rclick_ignored(tile)
       THEN UNCHANGED <<tile_array, flags, mine_count>>
       ELSE IF tile_array[tile].is_flag
       THEN /\ tile_array' = unflagged(tile_array, tile, use_marks)
            /\ flags' = set_mine_count(flags, 1)
            /\ mine_count' = remaining_mines(level, flags')
       ELSE IF tile_array[tile].is_question
       THEN /\ tile_array' = [tile_array EXCEPT ![tile].is_question = FALSE]
            /\ UNCHANGED <<flags, mine_count>>
       ELSE IF may_flag
       THEN /\ tile_array' = [tile_array EXCEPT ![tile].is_flag = TRUE]
            /\ flags' = set_mine_count(flags, -1)
            /\ mine_count' = remaining_mines(level, flags')
       ELSE UNCHANGED <<tile_array, flags, mine_count>>
    /\ Cardinality(MarkedTiles(tile_array')) <= MaxMarks
    /\ UNCHANGED <<level, mine_tiles, checked, move_count, use_marks,
                   visible_target, game_over, outcome, pressed, scores, timers>>

\* on_lclick_tile: the left button goes down on a tile; the first press of a
\* round resets the grid and places the mines away from the pressed tile
on_lclick_tile(tile) ==
    /\ pressed = None
    /\ pressed' = Some(tile)
    /\ IF game_over
       THEN UNCHANGED <<tile_array, mine_tiles, checked, flags, move_count, timers,
                        mine_count>>
       ELSE /\ move_count < MaxMoves
            /\ IF move_count = 0
               THEN \E picks \in [1 .. level.mines -> Tiles \ {tile}] :
                      /\ tile_array' = assign_neighbor_properties(
                                          generate_mines(reset_tiles(tile_array), picks))
                      /\ mine_tiles' = SeqRange(picks)
                      /\ checked' = <<>>
                      /\ flags' = set_mine_count(0, 0)
                      /\ mine_count' = remaining_mines(level, flags')
                      /\ timers' = set_timer(game_over, timers)
                      /\ timers' <= MaxTimers
               ELSE UNCHANGED <<tile_array, mine_tiles, checked, flags, timers, mine_count>>
            /\ move_count' = (IF move_count = 0 THEN 0 ELSE move_count) + 1
    /\ UNCHANGED <<level, use_marks, visible_target, game_over, outcome, scores>>

\* a variant of explode that leaves flagged mines as they are
explode_unflagged(arr, mines, tile) ==
    [t \in DOMAIN arr |->
        IF t = tile
        THEN [arr[t] EXCEPT !.is_question = FALSE, !.image = "tile_explode"]
        ELSE IF t \in mines /\ ~arr[t].is_flag THEN [arr[t] EXCEPT !.image = "tile_mine"]
        ELSE arr[t]]

\* the loss branch of on_lclick_tile_release
explode(arr, mines, tile) ==
    [t \in DOMAIN arr |->
        IF t = tile
        THEN [arr[t] EXCEPT !.is_question = FALSE, !.image = "tile_explode"]
        ELSE IF t \in mines THEN [arr[t] EXCEPT !.image = "tile_mine"]
        ELSE arr[t]]

\* the win branch of on_lclick_tile_release
flag_mines(arr) ==
    [t \in DOMAIN arr |->
        IF arr[t].is_mine THEN [arr[t] EXCEPT !.image = "tile_flag"] ELSE arr[t]]

\* the win test of on_lclick_tile_release
is_win(arr) == visible_tiles(arr) = visible_target

\* a variant of release_ignored that forgets the is_visible test
release_ignored_unless_visible(arr, tile, under_mouse) ==
    ~under_mouse \/ arr[tile].is_flag

\* the test of on_lclick_tile_release that ignores the release: the pointer
\* has left the tile, or the tile is visible or flagged
release_ignored(arr, tile, under_mouse) ==
    ~under_mouse \/ arr[tile].is_visible \/ arr[tile].is_flag

\* check_for_highscore: a time below the stored score of self.difficulty
\* opens a NewHighScore window, which stays open beside the game
check_for_highscore ==
    \E user_score \in Times :
        IF user_score < highscores[difficulty]
        THEN /\ dialogs' = dialogs (+) SetToBag({[new_high |-> user_score, level |-> level]})
             /\ BagCardinality(dialogs') <= MaxDialogs
        ELSE UNCHANGED dialogs

\* on_lclick_tile_release: the button goes up; the event belongs to the
\* pressed tile, under_mouse tells whether the pointer is still over it
on_lclick_tile_release(tile, under_mouse) ==
    /\ pressed = Some(tile)
    /\ pressed' = None
    /\ IF game_over
       THEN UNCHANGED <<tile_array, checked, game_over, outcome, dialogs>>
       ELSE IF release_ignored(tile_array, tile, under_mouse)
       THEN UNCHANGED <<tile_array, checked, game_over, outcome, dialogs>>
       ELSE IF tile_array[tile].is_mine
       THEN LET a1 == explode(tile_array, mine_tiles, tile)
            IN  /\ tile_array' = IF is_win(a1) THEN flag_mines(a1) ELSE a1
                /\ game_over' = TRUE
                /\ outcome' = IF is_win(a1) THEN "WIN" ELSE "LOSS"
                /\ IF is_win(a1) THEN check_for_highscore ELSE UNCHANGED dialogs
                /\ UNCHANGED checked
       ELSE LET r == uncover_tile(tile_array, <<>>, tile)
            IN  /\ checked' = r.chk
                /\ IF r.err
                   THEN /\ tile_array' = r.arr
                        /\ UNCHANGED <<game_over, outcome, dialogs>>
                   ELSE IF is_win(r.arr)
                   THEN /\ tile_array' = flag_mines(r.arr)
                        /\ game_over' = TRUE
                        /\ outcome' = "WIN"
                        /\ check_for_highscore
                   ELSE /\ tile_array' = r.arr
                        /\ UNCHANGED <<game_over, outcome, dialogs>>
    /\ UNCHANGED <<level, mine_tiles, flags, move_count, use_marks, visible_target,
                   difficulty, highscores, timers, mine_count>>

\* a variant of on_reset_release that leaves game_over as it is
on_reset_release_keeps_game_over ==
    /\ tile_array' = reset_tiles(tile_array)
    /\ checked' = <<>>
    /\ flags' = set_mine_count(0, 0)
    /\ mine_count' = remaining_mines(level, flags')
    /\ move_count' = 0
    /\ timers' = set_timer(game_over, timers)
    /\ timers' <= MaxTimers
    /\ UNCHANGED <<level, mine_tiles, use_marks, visible_target, pressed, scores,
                   game_over, outcome>>

\* on_reset_release: the reset button or the F2 key
on_reset_release ==
    /\ tile_array' = reset_tiles(tile_array)
    /\ checked' = <<>>
    /\ flags' = set_mine_count(0, 0)
    /\ mine_count' = remaining_mines(level, flags')
    /\ move_count' = 0
    /\ game_over' = FALSE
    /\ outcome' = "NONE"
    /\ timers' = set_timer(game_over, timers)
    /\ timers' <= MaxTimers
    /\ UNCHANGED <<level, mine_tiles, use_marks, visible_target, pressed, scores>>

\* on_level_select: a new grid of the chosen preset; game_over is not touched
on_level_select(name) ==
    /\ pressed = None
    /\ level' = DEFINED_LEVELS[name]
    /\ visible_target' =
         DEFINED_LEVELS[name].height * DEFINED_LEVELS[name].width
           - DEFINED_LEVELS[name].mines
    /\ tile_array' = reset_tiles(setup_tile_grid(DEFINED_LEVELS[name]))
    /\ checked' = <<>>
    /\ flags' = set_mine_count(0, 0)
    /\ mine_count' = remaining_mines(level', flags')
    /\ move_count' = 0
    /\ timers' = set_timer(game_over, timers)
    /\ timers' <= MaxTimers
    /\ UNCHANGED <<mine_tiles, use_marks, game_over, outcome, pressed, scores>>

\* on_toggle_marks
on_toggle_marks ==
    /\ pressed = None
    /\ use_marks' = ~use_marks
    /\ UNCHANGED <<level, tile_array, mine_tiles, checked, flags, move_count,
                   visible_target, game_over, outcome, pressed, scores, timers,
                   mine_count>>

\* NewHighScore.on_click_ok: the OK button of an open NewHighScore window
on_click_ok(dialog) ==
    /\ pressed = None
    /\ BagIn(dialog, dialogs)
    /\ highscores' = [highscores EXCEPT ![difficulty] = dialog.new_high]
    /\ dialogs' = dialogs (-) SetToBag({dialog})
    /\ UNCHANGED <<level, tile_array, mine_tiles, checked, flags, move_count, use_marks,
                   visible_target, game_over, outcome, pressed, difficulty, timers,
                   mine_count>>

\* HighScores.reset_scores: the Reset Scores button of the Best Times window
reset_scores ==
    /\ pressed = None
    /\ highscores' = [n \in LevelNames |-> DefaultScore]
    /\ UNCHANGED <<level, tile_array, mine_tiles, checked, flags, move_count, use_marks,
                   visible_target, game_over, outcome, pressed, difficulty, dialogs,
                   timers, mine_count>>

\* a pending after(1000, self.set_timer) callback runs
on_timer ==
    /\ timers > 0
    /\ timers' = set_timer(game_over, timers - 1)
    /\ UNCHANGED <<level, tile_array, mine_tiles, checked, flags, move_count, use_marks,
                   visible_target, game_over, outcome, pressed, scores, mine_count>>

RClick == \E tile \in Tiles : on_rclick_tile(tile)
LPress == \E tile \in Tiles : on_lclick_tile(tile)
LRelease == \E tile \in Tiles, under_mouse \in BOOLEAN : on_lclick_tile_release(tile, under_mouse)
Reset == on_reset_release
LevelSelect == \E name \in LevelNames : on_level_select(name)
ToggleMarks == on_toggle_marks
DialogOk == \E dialog \in BagToSet(dialogs) : on_click_ok(dialog)
ResetScores == reset_scores
Tick == on_timer

Next == RClick \/ LPress \/ LRelease \/ Reset \/ LevelSelect \/ ToggleMarks \/ Tick

Spec == Init /\ [][Next]_vars

\* The engine on a square board with one mine, played with the left button
\* and the reset key only: the board on which corner, edge and interior
\* tiles all exist.
InitGrid ==
    /\ level = Level(GridSize, GridSize, 1)
    /\ tile_array = setup_tile_grid(Level(GridSize, GridSize, 1))
    /\ mine_tiles = {}
    /\ checked = <<>>
    /\ flags = 0
    /\ move_count = 0
    /\ use_marks = TRUE
    /\ visible_target = GridSize * GridSize - 1
    /\ game_over = FALSE
    /\ outcome = "NONE"
    /\ pressed = None
    /\ difficulty = "beginner"
    /\ highscores = unbeatable_highscores
    /\ dialogs = EmptyBag
    /\ timers = 0
    /\ mine_count = Level(GridSize, GridSize, 1).mines

NextGrid == LPress \/ LRelease \/ Reset \/ Tick

SpecGrid == InitGrid /\ [][NextGrid]_vars

\* The game with its score keeping, started without a highscores.data file
\* and played with the left button, the reset key and the level menu.
InitScores ==
    /\ level = DEFINED_LEVELS["beginner"]
    /\ tile_array = setup_tile_grid(DEFINED_LEVELS["beginner"])
    /\ mine_tiles = {}
    /\ checked = <<>>
    /\ flags = 0
    /\ move_count = 0
    /\ use_marks = TRUE
    /\ visible_target =
         DEFINED_LEVELS["beginner"].height * DEFINED_LEVELS["beginner"].width
           - DEFINED_LEVELS["beginner"].mines
    /\ game_over = FALSE
    /\ outcome = "NONE"
    /\ pressed = None
    /\ difficulty = "beginner"
    /\ highscores = default_highscores
    /\ dialogs = EmptyBag
    /\ timers = 0
    /\ mine_count = DEFINED_LEVELS["beginner"].mines

NextScores == LPress \/ LRelease \/ Reset \/ LevelSelect \/ DialogOk \/ ResetScores \/ Tick

SpecScores == InitScores /\ [][NextScores]_vars

\* The game with its timer callbacks, played with the left button, the reset
\* key and the level menu.  The Tk event loop runs every pending after()
\* callback once its second has passed: weak fairness of Tick.
NextTimer == LPress \/ LRelease \/ Reset \/ LevelSelect \/ Tick

SpecTimer == Init /\ [][NextTimer]_vars /\ WF_vars(Tick)

(* ---- derived notions used by the properties ---- *)

MineSet(arr) == {t \in DOMAIN arr : arr[t].is_mine}
FlagSet(arr) == {t \in DOMAIN arr : arr[t].is_flag}
VisibleSet(arr) == {t \in DOMAIN arr : arr[t].is_visible}

\* a left-release on tile that reaches the mine test of on_lclick_tile_release
RevealOf(tile) ==
    /\ ~game_over
    /\ ~tile_array[tile].is_visible
    /\ ~tile_array[tile].is_flag
    /\ on_lclick_tile_release(tile, TRUE)

\* no reveal has happened since the grid was last reset
NothingRevealed == ~game_over /\ VisibleSet(tile_array) = {}

\* the attributes of the board a no-op must leave alone
board == <<tile_array, mine_tiles, flags, move_count, game_over, outcome,
           level, visible_target>>

(* ---- properties ---- *)

\* C1: the first reveal of a round never hits a mine: a left-release that
\* reaches the mine test while nothing has been revealed yet finds
\* is_mine = FALSE on its tile.
FirstRevealIsSafe ==
    [][\A tile \in Tiles :
          (NothingRevealed /\ RevealOf(tile)) => ~tile_array[tile].is_mine]_vars

\* C2: the first left-press of a round leaves exactly level.mines distinct
\* mine tiles, none of them the pressed tile.
MinesPlacedExactly ==
    [][\A tile \in Tiles :
          (~game_over /\ move_count = 0 /\ on_lclick_tile(tile))
            => /\ Cardinality(MineSet(tile_array')) = level.mines
               /\ ~tile_array'[tile].is_mine]_vars

\* C3: in every state WIN is reported if and only if the number of visible
\* tiles equals height*width - mines of the active level.
WinIffVisibleTarget ==
    (outcome = "WIN")
      <=> (visible_tiles(tile_array) = level.height * level.width - level.mines)

\* C4: a reveal ends the round with WIN exactly when it leaves every
\* non-mine tile visible, and a round ends only by LOSS on a mine or by WIN
\* with every non-mine tile visible.
WinExactlyOnFullReveal ==
    [][\A tile \in Tiles :
          RevealOf(tile)
            => /\ (outcome' = "WIN")
                    <=> (\A t \in Tiles : ~tile_array'[t].is_mine => tile_array'[t].is_visible)
               /\ (outcome' = "LOSS") <=> tile_array[tile].is_mine
               /\ game_over' <=> (outcome' \in {"WIN", "LOSS"})]_vars

\* C5: a reveal of a mine ends the round with LOSS, paints every mine tile
\* as an exposed mine whatever its mark, and the clicked tile as the
\* exploded mine.
MineRevealIsLoss ==
    [][\A tile \in Tiles :
          (RevealOf(tile) /\ tile_array[tile].is_mine)
            => /\ game_over'
               /\ outcome' = "LOSS"
               /\ tile_array'[tile].image = "tile_explode"
               /\ \A m \in MineSet(tile_array) \ {tile} :
                     tile_array'[m].image = "tile_mine"]_vars

\* C5 witness: a lost round with an exploded tile and a flagged mine shown exposed
LossWithFlaggedMineExposed ==
    /\ outcome = "LOSS"
    /\ \E tile \in Tiles : tile_array[tile].image = "tile_explode"
    /\ \E m \in Tiles : /\ tile_array[m].is_mine
                        /\ tile_array[m].is_flag
                        /\ tile_array[m].image = "tile_mine"

\* C6: a press and a release on a flagged tile of a round that is not over
\* change no mark: the tile stays covered and flagged, the flag count and the
\* marks of the other tiles stay as they are.
RevealOfFlaggedIsNoOp ==
    [][\A tile \in Tiles :
          (/\ ~game_over
           /\ tile_array[tile].is_flag
           /\ ~tile_array[tile].is_visible
           /\ (on_lclick_tile(tile) \/ \E u \in BOOLEAN : on_lclick_tile_release(tile, u)))
            => /\ flags' = flags
               /\ \A t \in Tiles :
                     /\ tile_array'[t].is_flag = tile_array[t].is_flag
                     /\ tile_array'[t].is_question = tile_array[t].is_question
                     /\ tile_array'[t].is_visible = tile_array[t].is_visible]_vars

\* C7: no tile is both visible and flagged.
NoVisibleFlag ==
    \A t \in Tiles : ~(tile_array[t].is_visible /\ tile_array[t].is_flag)

\* C8: a reveal with its flood fill leaves every flagged tile covered and
\* flagged.
FloodFillSkipsFlags ==
    [][\A tile \in Tiles :
          RevealOf(tile)
            => \A t \in FlagSet(tile_array) :
                  /\ tile_array'[t].is_flag
                  /\ tile_array'[t].is_visible = tile_array[t].is_visible]_vars

\* C9: once game_over holds, a left-press, a left-release and a right-click
\* leave the board as it is.
TerminalBoardIsFrozen ==
    [][(game_over /\ (LPress \/ LRelease \/ RClick)) => UNCHANGED board]_vars

\* C9 witness: a press was taken on a board whose round is over
PressOnTerminalBoard ==
    /\ game_over
    /\ pressed # None
    /\ MarkedTiles(tile_array) # {}

\* C10: the flag counter and the number of flagged tiles never exceed the
\* mines of the level, and a right-click on an unmarked covered tile with the
\* counter at the cap changes neither the counter nor the tile.
FlagCap ==
    /\ [](flags <= level.mines /\ Cardinality(FlagSet(tile_array)) <= level.mines)
    /\ [][\A tile \in Tiles :
            (/\ ~game_over
             /\ flags = level.mines
             /\ ~tile_array[tile].is_visible
             /\ tile \notin MarkedTiles(tile_array)
             /\ on_rclick_tile(tile))
              => (flags' = flags /\ tile_array' = tile_array)]_vars

\* C10 witness: every flag of a two-mine level is placed and an unmarked
\* covered tile is left to click
FlagsAtCap ==
    /\ ~game_over
    /\ level.mines = 2
    /\ flags = level.mines
    /\ \E t \in Tiles : ~tile_array[t].is_visible /\ t \notin MarkedTiles(tile_array)

\* the tile carries neither a flag nor a question mark
Unmarked(arr, t) == ~arr[t].is_flag /\ ~arr[t].is_question

\* C11: with marks enabled and flags left, right-clicks on a covered tile of
\* a round that is not over cycle it unmarked -> flagged -> questioned ->
\* unmarked; the flag counter goes up by one on the first click (the
\* remaining-mine counter drops by one), comes back on the second, and the
\* third leaves tile and counter as they were before the first.
MarkCycle ==
    [][\A tile \in Tiles :
          (/\ ~game_over
           /\ use_marks
           /\ ~tile_array[tile].is_visible
           /\ on_rclick_tile(tile))
            => /\ (Unmarked(tile_array, tile) /\ flags < level.mines)
                    => /\ tile_array' = [tile_array EXCEPT ![tile].is_flag = TRUE]
                       /\ level.mines - flags' = (level.mines - flags) - 1
               /\ tile_array[tile].is_flag
                    => /\ tile_array' = [tile_array EXCEPT ![tile].is_flag = FALSE,
                                                           ![tile].is_question = TRUE]
                       /\ level.mines - flags' = (level.mines - flags) + 1
               /\ tile_array[tile].is_question
                    => /\ tile_array' = [tile_array EXCEPT ![tile].is_question = FALSE]
                       /\ flags' = flags]_vars

\* C11 witness: the second click of the cycle is done: a questioned tile
\* with the counter back at its start, marks still enabled
QuestionedTileCounterRestored ==
    /\ ~game_over
    /\ use_marks
    /\ flags = 0
    /\ move_count > 0
    /\ \E t \in Tiles : tile_array[t].is_question /\ ~tile_array[t].is_visible

\* C12: no tile carries a flag and a question mark at once.
NoFlagAndQuestion ==
    \A t \in Tiles : ~(tile_array[t].is_flag /\ tile_array[t].is_question)

\* C12 witness: a flagged tile next to a questioned one, with the marks option
\* switched off after the question mark was set
FlagAndQuestionOnTwoTiles ==
    /\ ~use_marks
    /\ \E t, u \in Tiles : tile_array[t].is_flag /\ tile_array[u].is_question

\* the tiles at distance one of t in row and column, t itself left out
EightNeighbours(t) ==
    {u \in Tiles : /\ u # t
                   /\ u[1] - t[1] \in {-1, 0, 1}
                   /\ u[2] - t[2] \in {-1, 0, 1}}

\* the number of borders of the board the tile lies on
Borders(t) ==
    Cardinality({b \in {"top", "bottom", "left", "right"} :
        \/ b = "top" /\ t[1] = 0
        \/ b = "bottom" /\ t[1] = level.height - 1
        \/ b = "left" /\ t[2] = 0
        \/ b = "right" /\ t[2] = level.width - 1})

\* C13: while mines are placed (move_count > 0) every tile's tile_neighbors
\* lists exactly its in-bounds 8-neighbours, each once (3 on a corner, 5 on an
\* edge, 8 inside), and its mine_neighbors is the number of mines among them.
AdjacencyExact ==
    move_count > 0 =>
      \A t \in Tiles :
        /\ tile_array[t].tile_neighbors # None
        /\ LET nbrs == TheValue(tile_array[t].tile_neighbors)
           IN  /\ SeqRange(nbrs) = EightNeighbours(t)
               /\ Len(nbrs) = Cardinality(EightNeighbours(t))
               /\ Len(nbrs) = CASE Borders(t) = 2 -> 3
                                [] Borders(t) = 1 -> 5
                                [] OTHER -> 8
               /\ tile_array[t].mine_neighbors =
                    Cardinality({u \in EightNeighbours(t) : tile_array[u].is_mine})

\* C13 witness: mines are placed, an interior tile counts one mine and a
\* corner tile lists three neighbours
InteriorTileCountsMine ==
    /\ move_count > 0
    /\ \E t \in Tiles : Borders(t) = 0 /\ tile_array[t].mine_neighbors = 1
    /\ \E t \in Tiles : /\ Borders(t) = 2
                        /\ tile_array[t].tile_neighbors # None
                        /\ Len(TheValue(tile_array[t].tile_neighbors)) = 3

\* the number of mines among the 8-neighbours of t
Adjacency(t) == Cardinality({u \in EightNeighbours(t) : tile_array[u].is_mine})

\* the tiles reachable from the tiles of R by 8-neighbour steps out of
\* zero-adjacency tiles: the zero region and its numbered border
RECURSIVE ZeroClosure(_)
ZeroClosure(R) ==
    LET R2 == R \cup UNION {EightNeighbours(u) : u \in {v \in R : Adjacency(v) = 0}}
    IN  IF R2 = R THEN R ELSE ZeroClosure(R2)

\* C14: a reveal of a covered, unflagged non-mine tile makes visible exactly
\* the tile and, when its adjacency is 0, the zero region around it with its
\* numbered border; no mine becomes visible and visible tiles stay visible.
\* On the square board with its mine at (0,0) the reveal of the opposite
\* corner shows every non-mine tile and wins.
RevealShowsZeroRegion ==
    [][\A tile \in Tiles :
          (RevealOf(tile) /\ ~tile_array[tile].is_mine)
            => /\ VisibleSet(tile_array') = VisibleSet(tile_array) \cup ZeroClosure({tile})
               /\ \A t \in Tiles : tile_array'[t].is_visible => ~tile_array'[t].is_mine
               /\ (/\ level = Level(GridSize, GridSize, 1)
                   /\ MineSet(tile_array) = {<<0, 0>>}
                   /\ tile = <<level.height - 1, level.width - 1>>
                   /\ VisibleSet(tile_array) = {})
                    => /\ VisibleSet(tile_array') = Tiles \ {<<0, 0>>}
                       /\ outcome' = "WIN"]_vars

\* C15: the flood fill of a reveal terminates: it makes at most one call of
\* uncover_tile for the start tile and eight for every tile it uncovers; it
\* uncovers no tile twice and none that was visible before the fill.
FloodFillVisitsOnce ==
    [][\A tile \in Tiles :
          (RevealOf(tile) /\ ~tile_array[tile].is_mine)
            => /\ uncover_tile(tile_array, <<>>, tile).calls <= 1 + 8 * Len(checked')
               /\ Len(checked') <= Cardinality(Tiles)
               /\ Len(checked') = Cardinality(SeqRange(checked'))
               /\ \A t \in SeqRange(checked') : ~tile_array[t].is_visible]_vars

\* C15 witness: a second fill of the round has uncovered several tiles and
\* left alone a tile that was visible before
SecondFillSkipsVisible ==
    /\ move_count = 2
    /\ Len(checked) >= 3
    /\ \E t \in Tiles : tile_array[t].is_visible /\ t \notin SeqRange(checked)

ScoreWrittenOnlyWhenLower ==
    [][/\ \A dialog \in BagToSet(dialogs) :
             on_click_ok(dialog) => dialog.new_high < highscores[difficulty]
       /\ reset_scores \/ \A n \in LevelNames : highscores'[n] <= highscores[n]]_vars

\* the name of a preset
LevelNameOf(l) == CHOOSE n \in LevelNames : DEFINED_LEVELS[n] = l

\* C18: a win opens a NewHighScore window only for a time below the stored
\* score of the level selected at the win, and the OK of that window writes
\* the entry of that level and leaves the other two entries as they are.
ScoresKeptPerDifficulty ==
    [][/\ \A dialog \in BagToSet(dialogs') :
             CopiesIn(dialog, dialogs') > CopiesIn(dialog, dialogs)
               => dialog.new_high < highscores[LevelNameOf(level)]
       /\ \A dialog \in BagToSet(dialogs) :
             on_click_ok(dialog)
               => highscores' = [highscores EXCEPT ![LevelNameOf(dialog.level)] =
                                                      dialog.new_high]]_vars

\* a grid as reset_grid leaves it: no tile visible, mined, flagged or
\* questioned, every adjacency 0
FreshGrid(arr) ==
    \A t \in DOMAIN arr :
        /\ ~arr[t].is_visible
        /\ ~arr[t].is_mine
        /\ ~arr[t].is_flag
        /\ ~arr[t].is_question
        /\ arr[t].mine_neighbors = 0

\* C19: selecting a level, in any state, leaves a fresh grid of the preset's
\* height and width, flag count 0, move counter 0, game_over false and the
\* win target height * width - mines of the preset.
LevelSelectStartsFresh ==
    [][\A name \in LevelNames :
          on_level_select(name)
            => /\ level' = DEFINED_LEVELS[name]
               /\ DOMAIN tile_array' = TileIndices(DEFINED_LEVELS[name])
               /\ FreshGrid(tile_array')
               /\ flags' = 0
               /\ move_count' = 0
               /\ visible_target' = DEFINED_LEVELS[name].height * DEFINED_LEVELS[name].width
                                      - DEFINED_LEVELS[name].mines
               /\ ~game_over']_vars

\* C20: a reset, in any state, leaves a fresh grid, flag count 0, move
\* counter 0 and game_over false, and keeps the level, the shape of the grid
\* and the win target; no other step turns game_over from true to false.
ResetReturnsToNotStarted ==
    [][/\ on_reset_release
            => /\ FreshGrid(tile_array')
               /\ flags' = 0
               /\ move_count' = 0
               /\ ~game_over'
               /\ level' = level
               /\ DOMAIN tile_array' = DOMAIN tile_array
               /\ visible_target' = visible_target
       /\ (game_over /\ ~game_over') => on_reset_release]_vars

\* C20 witness: a fresh grid after a round that had placed its mines and
\* ended, with the game open again
ResetAfterRound ==
    /\ ~game_over
    /\ outcome = "NONE"
    /\ move_count = 0
    /\ flags = 0
    /\ mine_tiles # {}
    /\ FreshGrid(tile_array)
    /\ pressed = None

FlagCounterMatchesFlags ==
    /\ flags = Cardinality(FlagSet(tile_array))
    /\ mine_count = level.mines - Cardinality(FlagSet(tile_array))
    /\ mine_count >= 0

\* C22 witness: a flag has been turned into a question mark on a round with
\* another flag standing, and the counter shows one mine left
FlagTakenBack ==
    /\ ~game_over
    /\ level.mines = 2
    /\ Cardinality(FlagSet(tile_array)) = 1
    /\ \E t \in Tiles : tile_array[t].is_question
    /\ mine_count = 1

\* C23: at most one after(1000, set_timer) callback is pending at any time.
AtMostOneTimer == timers <= 1

\* C24: every reveal runs on a started board: the move counter is above 0,
\* a mine is placed, every tile has its neighbour list, and the flood fill
\* does not fail on a missing list.
RevealOnlyOnStartedBoard ==
    [][\A tile \in Tiles :
          RevealOf(tile)
            => /\ move_count > 0
               /\ MineSet(tile_array) # {}
               /\ \A t \in Tiles : tile_array[t].tile_neighbors # None
               /\ tile_array[tile].is_mine
                    \/ ~uncover_tile(tile_array, <<>>, tile).err]_vars

====
